---- MODULE Spec2Model ----
(***************************************************************************)
(* A model of the UNO-style game engine of src/src/main.rs: the card       *)
(* model and its accepts relation, the deck lifecycle (gen_draw_pile,      *)
(* transfer_cards, init_players, init_discard_pile) and the turn loop of   *)
(* start together with Bot::play.                                          *)
(*                                                                         *)
(* Representation.  draw_pile is a Vec<Card> whose order is produced only  *)
(* by shuffle (lines 104, 132, 143) and read only by pop/last; the model   *)
(* keeps it as a bag and resolves the permutation chosen by shuffle when a *)
(* card is popped, which yields exactly the same draws.  A deck (the hand  *)
(* of a Bot, or the deck transfer_cards pushes to) is a Vec<Card> read     *)
(* only by iteration, by a random choice among the legal indices, by       *)
(* last() right after a push and by swap_remove: nothing depends on the    *)
(* positions, so a deck is a bag too.  discard_pile is a sequence, its     *)
(* last element the top card.                                              *)
(***************************************************************************)
EXTENDS Bags, FiniteSets, Integers, Sequences, TLC

(***************************************************************************)
(* Bounds of the model.                                                    *)
(***************************************************************************)
\* Number of bots offered to ask_bot_count (the program admits 1..MAX_BOTS).
MaxBots == 3
\* Cards dealt to each player by init_players in the game specification
\* (INITIAL_CARDS_PER_PLAYER in the program, whose deck is larger).
DealtCards == 2
\* Number of turns of the game loop that are explored.
MaxTurns == 4
\* Largest draw pile, discard pile and receiving deck handed to
\* transfer_cards in the specification of that function alone.
MaxDrawLen == 3
MaxDiscardLen == 6
MaxDeckLen == 1

(***************************************************************************)
(* Program constants.                                                      *)
(***************************************************************************)
MAX_BOTS == 9
INITIAL_CARDS_PER_PLAYER == 7

\* Option<Color>::None
None == "None"

\* enum Color, restricted to two of the four colors of COLORS.
COLORS == <<"Red", "Blue">>
\* enum Action / const ACTIONS (a reserved word of TLA+)
ACTION_KINDS == <<"Draw2", "Reverse", "Skip">>
\* enum WildAction / const WILD_ACTIONS
WILD_ACTIONS == <<"ChangeColor", "Draw4">>

Range(s) == {s[i] : i \in DOMAIN s}

ColorSet == Range(COLORS)

(***************************************************************************)
(* enum Card.  The three variants are records over the same fields; the    *)
(* fields a variant does not carry hold a placeholder.                     *)
(***************************************************************************)
Number(number, color) ==
    [type |-> "Number", number |-> number, action |-> None, color |-> color]

ActionCard(action, color) ==
    [type |-> "Action", number |-> -1, action |-> action, color |-> color]

Wild(wild_action) ==
    [type |-> "Wild", number |-> -1, action |-> wild_action, color |-> None]

IsWild(card) == card.type = "Wild"

\* no card: the value of "placed" for a turn that placed none
NoCard == [type |-> "None", number |-> -1, action |-> None, color |-> None]

(***************************************************************************)
(* Card::accepts.  self is the top card, other the candidate.  The last    *)
(* arm unwraps wild_color and panics on None.                              *)
(***************************************************************************)
AcceptsPanics(self, other, wild_color) ==
    /\ self.type = "Wild"
    /\ other.type # "Wild"
    /\ wild_color = None

\* lines 66-69, mutated: two Action cards match on color only
accepts_color_only(self, other, wild_color) ==
    CASE self.type = "Wild" /\ other.type # "Wild" -> other.color = wild_color
      [] other.type = "Wild" -> TRUE
      [] self.type = "Number" /\ other.type = "Number" ->
            self.color = other.color \/ self.number = other.number
      [] OTHER -> self.color = other.color

accepts(self, other, wild_color) ==
    CASE self.type = "Number" /\ other.type = "Number" ->
            self.color = other.color \/ self.number = other.number
      [] self.type = "Number" /\ other.type = "Action" ->
            self.color = other.color
      [] self.type = "Action" /\ other.type = "Number" ->
            self.color = other.color
      [] self.type = "Action" /\ other.type = "Action" ->
            self.color = other.color \/ self.action = other.action
      [] other.type = "Wild" -> TRUE
      [] OTHER -> other.color = wild_color

(***************************************************************************)
(* Bags of cards.                                                          *)
(***************************************************************************)
SeqToBag(s) ==
    [c \in Range(s) |-> Cardinality({i \in DOMAIN s : s[i] = c})]

One(card) == SetToBag({card})

RECURSIVE Concat(_)
Concat(ss) == IF ss = <<>> THEN <<>> ELSE Head(ss) \o Concat(Tail(ss))

(***************************************************************************)
(* gen_draw_pile, before the shuffle: the cards in push order, for the     *)
(* colors, the ranks above 0, the copies of the ranks and actions and the  *)
(* copies of each wild the loops run over.                                 *)
(***************************************************************************)
PushedOfColor(color, numbers, copies) ==
    <<Number(0, color)>> \o
    Concat([k \in DOMAIN copies |->
              [n \in DOMAIN numbers |-> Number(numbers[n], color)] \o
              [a \in DOMAIN ACTION_KINDS |-> ActionCard(ACTION_KINDS[a], color)]])

Pushed(colors, numbers, copies, wilds) ==
    Concat([c \in DOMAIN colors |-> PushedOfColor(colors[c], numbers, copies)]) \o
    Concat([w \in DOMAIN WILD_ACTIONS |->
              [k \in DOMAIN wilds |-> Wild(WILD_ACTIONS[w])]])

(***************************************************************************)
(* The deck of the game specification is scaled: GenNumbers ranks above 0  *)
(* instead of 9, GenCopies copies of the ranks and actions instead of 2,   *)
(* GenWilds copies of each wild instead of 4.                              *)
(***************************************************************************)
GenNumbers == <<>>
GenCopies == <<1>>
GenWilds == <<1>>

GenColor(color) == PushedOfColor(color, GenNumbers, GenCopies)

gen_draw_pile == Pushed(COLORS, GenNumbers, GenCopies, GenWilds)

(***************************************************************************)
(* The deck of the program: the four colors, ranks 1..=9, two copies of    *)
(* the ranks and actions, four of each wild.                               *)
(***************************************************************************)
ALL_COLORS == <<"Red", "Blue", "Green", "Yellow">>
AllColorSet == Range(ALL_COLORS)
FullNumbers == [n \in 1..9 |-> n]

\* line 88, mutated: 0..=2
FullCopiesInclusive == <<0, 1, 2>>

\* line 88: for _ in 0..2
FullCopies == <<0, 1>>

\* line 100: for _ in 0..4
FullWilds == <<0, 1, 2, 3>>

full_draw_pile == Pushed(ALL_COLORS, FullNumbers, FullCopies, FullWilds)

(***************************************************************************)
(* transfer_cards.  The result is the set of outcomes over the shuffles:   *)
(* ret is the returned bool (TRUE = no cards left), panic tells that       *)
(* discard_pile.len() - 1 underflowed on an empty discard pile.            *)
(***************************************************************************)
TransferResult(draw, discard, deck, ret, panic) ==
    [draw_pile |-> draw, discard_pile |-> discard, deck |-> deck,
     ret |-> ret, panic |-> panic]

\* line 125, mutated: one recyclable card is treated as none
NothingToRecycleOffByOne(discard) == Len(discard) <= 2

\* line 125: only the top card is left
NothingToRecycle(discard) == Len(discard) = 1

\* line 129, mutated: drains everything but the first card
DrainedTail(discard) == Tail(discard)

\* line 129: discard_pile.drain(..discard_pile.len() - 1)
Drained(discard) == SubSeq(discard, 1, Len(discard) - 1)

\* what drain leaves in the discard pile
AfterDrain(discard) == <<discard[Len(discard)]>>

\* discard_pile[discard_pile.len() - 1]
Top(discard) == discard[Len(discard)]

RECURSIVE transfer_cards(_, _, _, _)
transfer_cards(draw, discard, deck, amount) ==
    IF amount = 0
    THEN {TransferResult(draw, discard, deck, FALSE, FALSE)}
    ELSE IF draw # EmptyBag
    THEN UNION {transfer_cards(draw (-) One(card), discard,
                               deck (+) One(card), amount - 1)
                  : card \in BagToSet(draw)}
    ELSE IF Len(discard) = 0
    THEN {TransferResult(draw, discard, deck, FALSE, TRUE)}
    ELSE IF NothingToRecycle(discard)
    THEN {TransferResult(draw, discard, deck, TRUE, FALSE)}
    ELSE transfer_cards(SeqToBag(Drained(discard)), AfterDrain(discard),
                        deck, amount)

(***************************************************************************)
(* State.                                                                  *)
(***************************************************************************)
VARIABLES
    draw_pile,      \* start: draw_pile, as a bag (in order under GenSpec)
    discard_pile,   \* start: discard_pile
    players,        \* start: players; players[i] is the deck of Bot i
    dir,            \* start: dir
    is_hot,         \* start: is_hot
    wild_color,     \* start: wild_color
    cur_idx,        \* start: cur_idx
    pc,             \* position in start / in the function called alone
    play_result,    \* start: play_result, None while the loop runs
    turns,          \* number of turns of the loop taken so far
    last,           \* what the last turn did
    call            \* arguments of the function called alone

vars == <<draw_pile, discard_pile, players, dir, is_hot, wild_color,
          cur_idx, pc, play_result, turns, last, call>>

NoTurn == [player |-> -1, kind |-> "none", dir |-> 1, hot |-> TRUE,
           decided |-> FALSE, drawn |-> 0, placed |-> NoCard]
NoCall == [amount |-> 0]

\* players.push(Box::new(Bot { deck })), players being indexed from 0
PushPlayer(ps, deck) ==
    [i \in 0..Cardinality(DOMAIN ps) |-> IF i \in DOMAIN ps THEN ps[i] ELSE deck]

(***************************************************************************)
(* Bot::play.  Result: the set of outcomes over the random choices, each   *)
(* with the piles, the deck and dir as the call leaves them, the           *)
(* PlayResult (result, and new_wild_color for Place), and what the turn    *)
(* did: decided (it reached "Find a card to play"), drawn (cards moved to  *)
(* the deck), placed (the card put on the discard pile, or NoCard).  A     *)
(* panic is the result "UnwrapNone" (wild_color.unwrap() in accepts) or    *)
(* "Underflow" (discard_pile.len() - 1 in transfer_cards).                 *)
(***************************************************************************)
\* line 388, mutated: Place(None) is returned for a turn that placed no card
PlayOutcomePlaceForNoPlace(draw, discard, deck, d, result, new_wild_color, decided, drawn, placed) ==
    [draw_pile |-> draw, discard_pile |-> discard, deck |-> deck, dir |-> d,
     result |-> IF result = "NoPlace" THEN "Place" ELSE result,
     new_wild_color |-> new_wild_color,
     decided |-> decided, drawn |-> drawn, placed |-> placed]

PlayOutcome(draw, discard, deck, d, result, new_wild_color, decided, drawn, placed) ==
    [draw_pile |-> draw, discard_pile |-> discard, deck |-> deck, dir |-> d,
     result |-> result, new_wild_color |-> new_wild_color,
     decided |-> decided, drawn |-> drawn, placed |-> placed]

\* line 361, mutated: the card is read at the index and stays in the deck
swap_remove_kept(deck, card) == deck

\* Vec::swap_remove of the card at the chosen index
swap_remove(deck, card) == deck (-) One(card)

\* lines 313-314, mutated: the arm of Reverse is taken for the one of Skip
ForcedSkipOnReverse(top) == top.type = "Action" /\ top.action = "Reverse"

\* lines 313-314: the top card is a Skip
ForcedSkip(top) == top.type = "Action" /\ top.action = "Skip"

\* lines 315, 326, mutated: a Draw4 makes the next player draw two
ForcedDrawTwoEach(top) ==
    IF top.type = "Action" /\ top.action = "Draw2" THEN 2
    ELSE IF top.type = "Wild" /\ top.action = "Draw4" THEN 2
    ELSE 0

\* lines 315-316, 326-327: the cards the top card makes the player draw
ForcedDraw(top) ==
    IF top.type = "Action" /\ top.action = "Draw2" THEN 2
    ELSE IF top.type = "Wild" /\ top.action = "Draw4" THEN 4
    ELSE 0

\* lines 363-380, mutated: the color is bound for a Draw4 only
NewWildColorsDraw4Only(played_card) ==
    IF IsWild(played_card) /\ played_card.action = "Draw4" THEN ColorSet ELSE {None}

\* lines 363-380: new_wild_color, Some(rng.gen()) for a Wild
NewWildColors(played_card) ==
    IF IsWild(played_card) THEN ColorSet ELSE {None}

\* lines 366-371, mutated: a Reverse leaves dir as it is
DirAfterKept(played_card, d) == d

\* lines 366-371: dir after the card is played
DirAfter(played_card, d) ==
    IF played_card.type = "Action" /\ played_card.action = "Reverse" THEN -d ELSE d

\* lines 382-386, mutated: Place is returned whatever is left of the deck
PlaceNeverWins(draw, discard, deck, d, played_card, drawn) ==
    {PlayOutcome(draw, Append(discard, played_card),
                 swap_remove(deck, played_card), DirAfter(played_card, d),
                 "Place", c, TRUE, drawn, played_card)
       : c \in NewWildColors(played_card)}

\* lines 360-386: the chosen card is moved to the discard pile
Place(draw, discard, deck, d, played_card, drawn) ==
    LET new_deck == swap_remove(deck, played_card)
    IN  {PlayOutcome(draw, Append(discard, played_card), new_deck,
                     DirAfter(played_card, d),
                     IF new_deck = EmptyBag THEN "Win" ELSE "Place",
                     IF new_deck = EmptyBag THEN None ELSE c,
                     TRUE, drawn, played_card)
           : c \in NewWildColors(played_card)}

\* line 354: self.deck.last() after one card was pushed to deck
LastPushed(deck, new_deck) ==
    CHOOSE card \in BagToSet(new_deck) : new_deck = deck (+) One(card)

\* lines 339-389: find a card to play
Decide(draw, discard, deck, d, wc) ==
    LET top == discard[Len(discard)]
        possible == {card \in BagToSet(deck) : accepts(top, card, wc)}
    IN  IF \E card \in BagToSet(deck) : AcceptsPanics(top, card, wc)
        THEN {PlayOutcome(draw, discard, deck, d, "UnwrapNone", None, TRUE, 0, NoCard)}
        ELSE IF possible # {}
        THEN UNION {Place(draw, discard, deck, d, card, 0) : card \in possible}
        ELSE UNION {
               IF r.panic
               THEN {PlayOutcome(r.draw_pile, r.discard_pile, r.deck, d,
                                 "Underflow", None, TRUE, 0, NoCard)}
               ELSE IF r.ret
               THEN {PlayOutcome(r.draw_pile, r.discard_pile, r.deck, d,
                                 "Starvation", None, TRUE, 0, NoCard)}
               ELSE IF AcceptsPanics(Top(r.discard_pile), LastPushed(deck, r.deck), wc)
               THEN {PlayOutcome(r.draw_pile, r.discard_pile, r.deck, d,
                                 "UnwrapNone", None, TRUE, 1, NoCard)}
               ELSE IF accepts(Top(r.discard_pile), LastPushed(deck, r.deck), wc)
               THEN Place(r.draw_pile, r.discard_pile, r.deck, d,
                          LastPushed(deck, r.deck), 1)
               ELSE {PlayOutcome(r.draw_pile, r.discard_pile, r.deck, d,
                                 "NoPlace", None, TRUE, 1, NoCard)}
               : r \in transfer_cards(draw, discard, deck, 1)}

\* lines 316-319, 327-330, mutated: the result of transfer_cards is ignored
play_ignoring_starvation(draw, discard, deck, d, hot, wc) ==
    LET top == discard[Len(discard)]
    IN  IF hot /\ ForcedSkip(top)
        THEN {PlayOutcome(draw, discard, deck, d, "NoPlace", None, FALSE, 0, NoCard)}
        ELSE IF hot /\ ForcedDraw(top) > 0
        THEN {PlayOutcome(r.draw_pile, r.discard_pile, r.deck, d,
                          IF r.panic THEN "Underflow" ELSE "NoPlace",
                          None, FALSE,
                          BagCardinality(r.deck) - BagCardinality(deck), NoCard)
                : r \in transfer_cards(draw, discard, deck, ForcedDraw(top))}
        ELSE Decide(draw, discard, deck, d, wc)

\* lines 310-390
play(draw, discard, deck, d, hot, wc) ==
    LET top == discard[Len(discard)]
    IN  IF hot /\ ForcedSkip(top)
        THEN {PlayOutcome(draw, discard, deck, d, "NoPlace", None, FALSE, 0, NoCard)}
        ELSE IF hot /\ ForcedDraw(top) > 0
        THEN {PlayOutcome(r.draw_pile, r.discard_pile, r.deck, d,
                          IF r.panic THEN "Underflow"
                          ELSE IF r.ret THEN "Starvation" ELSE "NoPlace",
                          None, FALSE,
                          BagCardinality(r.deck) - BagCardinality(deck), NoCard)
                : r \in transfer_cards(draw, discard, deck, ForcedDraw(top))}
        ELSE Decide(draw, discard, deck, d, wc)

(***************************************************************************)
(* start.                                                                  *)
(***************************************************************************)
Min(a, b) == IF a < b THEN a ELSE b

\* ask_bot_count: a count in 1..MAX_BOTS, here up to MaxBots
BotCounts == 1..Min(MaxBots, MAX_BOTS)

\* line 221
player_count == Cardinality(DOMAIN players)

\* lines 205-211: the locals of start, the draw pile generated and shuffled
Init ==
    /\ draw_pile = SeqToBag(gen_draw_pile)
    /\ discard_pile = <<>>
    /\ players = <<>>
    /\ dir = 1
    /\ is_hot = TRUE
    /\ wild_color = None
    /\ cur_idx = 0
    /\ pc = "init_players"
    /\ play_result = None
    /\ turns = 0
    /\ last = NoTurn
    /\ call = NoCall

\* line 161, mutated: one card more than INITIAL_CARDS_PER_PLAYER is dealt
RECURSIVE init_players_one_more(_, _, _, _, _)
init_players_one_more(i, bot_count, draw, discard, ps) ==
    IF i > bot_count
    THEN /\ draw_pile' = draw
         /\ discard_pile' = discard
         /\ players' = ps
         /\ pc' = "init_discard_pile"
    ELSE \E r \in transfer_cards(draw, discard, EmptyBag, DealtCards + 1) :
           IF r.panic
           THEN /\ draw_pile' = r.draw_pile
                /\ discard_pile' = r.discard_pile
                /\ players' = ps
                /\ pc' = "panic"
           ELSE init_players_one_more(i + 1, bot_count, r.draw_pile,
                                      r.discard_pile,
                                      IF i = 0 THEN ps ELSE PushPlayer(ps, r.deck))

\* lines 148-173, init_players from iteration i of its loop on: bot_count + 1
\* decks are dealt, the first one (i = 0, the human's) is dropped with its
\* cards, the others become the Bots.  The result of transfer_cards is
\* ignored.
RECURSIVE init_players(_, _, _, _, _)
init_players(i, bot_count, draw, discard, ps) ==
    IF i > bot_count
    THEN /\ draw_pile' = draw
         /\ discard_pile' = discard
         /\ players' = ps
         /\ pc' = "init_discard_pile"
    ELSE \E r \in transfer_cards(draw, discard, EmptyBag, DealtCards) :
           IF r.panic
           THEN /\ draw_pile' = r.draw_pile
                /\ discard_pile' = r.discard_pile
                /\ players' = ps
                /\ pc' = "panic"
           ELSE init_players(i + 1, bot_count, r.draw_pile, r.discard_pile,
                             IF i = 0 THEN ps ELSE PushPlayer(ps, r.deck))

\* lines 214-219
InitPlayers ==
    /\ pc = "init_players"
    /\ \E bot_count \in BotCounts :
          init_players(0, bot_count, draw_pile, discard_pile, <<>>)
    /\ UNCHANGED <<dir, is_hot, wild_color, cur_idx, play_result, turns, last, call>>

\* lines 141-146 and 220: the draw pile is reshuffled until its last card is
\* no Wild, and that card seeds the discard pile.  An empty draw pile panics
\* (unwrap); a draw pile of Wilds only is reshuffled for ever.
InitDiscardPile ==
    /\ pc = "init_discard_pile"
    /\ IF draw_pile = EmptyBag
       THEN /\ pc' = "panic"
            /\ UNCHANGED <<draw_pile, discard_pile>>
       ELSE IF \A card \in BagToSet(draw_pile) : IsWild(card)
       THEN UNCHANGED <<pc, draw_pile, discard_pile>>
       ELSE \E card \in BagToSet(draw_pile) :
              /\ ~IsWild(card)
              /\ draw_pile' = draw_pile (-) One(card)
              /\ discard_pile' = Append(discard_pile, card)
              /\ pc' = "play"
    /\ UNCHANGED <<players, dir, is_hot, wild_color, cur_idx, play_result,
                   turns, last, call>>

\* line 244: usize::try_from(player_count + dir) is Err for a negative value
\* and unwrap then panics
StepFails(d) == player_count + d < 0

\* line 244, mutated: the direction is not used
NextIdxForward(idx, d) == (idx + 1) % player_count

\* line 244: (cur_idx + usize::try_from(player_count + dir).unwrap()) % players.len()
NextIdx(idx, d) == (idx + (player_count + d)) % player_count

\* lines 223-245: one turn of the loop
Play ==
    /\ pc = "play"
    /\ turns < MaxTurns
    /\ \E o \in play(draw_pile, discard_pile, players[cur_idx], dir, is_hot,
                     wild_color) :
          /\ draw_pile' = o.draw_pile
          /\ discard_pile' = o.discard_pile
          /\ players' = [players EXCEPT ![cur_idx] = o.deck]
          /\ dir' = o.dir
          /\ last' = [player |-> cur_idx, kind |-> o.result, dir |-> dir,
                      hot |-> is_hot, decided |-> o.decided,
                      drawn |-> o.drawn, placed |-> o.placed]
          /\ CASE o.result = "Place" /\ ~StepFails(o.dir) ->
                    /\ is_hot' = TRUE
                    /\ wild_color' = o.new_wild_color
                    /\ cur_idx' = NextIdx(cur_idx, o.dir)
                    /\ UNCHANGED <<pc, play_result>>
               [] o.result = "NoPlace" /\ ~StepFails(o.dir) ->
                    /\ is_hot' = FALSE
                    /\ cur_idx' = NextIdx(cur_idx, o.dir)
                    /\ UNCHANGED <<pc, play_result, wild_color>>
               [] o.result \in {"Win", "Starvation"} ->
                    /\ play_result' = o.result
                    /\ pc' = "done"
                    /\ UNCHANGED <<is_hot, wild_color, cur_idx>>
               [] OTHER ->
                    /\ pc' = "panic"
                    /\ UNCHANGED <<is_hot, wild_color, cur_idx, play_result>>
    /\ turns' = turns + 1
    /\ UNCHANGED call

Next == InitPlayers \/ InitDiscardPile \/ Play

Spec == Init /\ [][Next]_vars

\* lines 247-258: the player reported as the winner, if any ("you" is
\* printed for index 0, "Bot {cur_idx}" otherwise)
Winner == IF play_result = "Win" THEN cur_idx ELSE None

(***************************************************************************)
(* transfer_cards on its own: the arguments are drawn from bounded sets,   *)
(* the one action is the call.  The amounts run up to the largest one of   *)
(* the call sites (7, 2, 4 and 1 at lines 162, 316, 327, 350); as in the   *)
(* game, the discard pile holds at least its top card.  players[0] is the  *)
(* receiving deck.                                                         *)
(***************************************************************************)
SeqsUpTo(S, n) == UNION {[1..k -> S] : k \in 0..n}

TransferCardSet == {Number(0, "Red"), Wild("Draw4")}

TransferAmounts == 1..INITIAL_CARDS_PER_PLAYER

TransferCalls ==
    {[amount |-> a, draw_pile |-> SeqToBag(d), discard_pile |-> s, deck |-> h] :
        a \in TransferAmounts,
        d \in SeqsUpTo(TransferCardSet, MaxDrawLen),
        s \in SeqsUpTo(TransferCardSet, MaxDiscardLen) \ {<<>>},
        h \in {SeqToBag(x) : x \in SeqsUpTo({Number(0, "Blue")}, MaxDeckLen)}}

TransferInit ==
    /\ call \in TransferCalls
    /\ draw_pile = call.draw_pile
    /\ discard_pile = call.discard_pile
    /\ players = [i \in {0} |-> call.deck]
    /\ dir = 1
    /\ is_hot = TRUE
    /\ wild_color = None
    /\ cur_idx = 0
    /\ pc = "transfer_cards"
    /\ play_result = None
    /\ turns = 0
    /\ last = NoTurn

TransferCall ==
    /\ pc = "transfer_cards"
    /\ \E r \in transfer_cards(draw_pile, discard_pile, players[0], call.amount) :
          /\ draw_pile' = r.draw_pile
          /\ discard_pile' = r.discard_pile
          /\ players' = [players EXCEPT ![0] = r.deck]
          /\ pc' = IF r.panic THEN "panic"
                   ELSE IF r.ret THEN "returned_true" ELSE "returned_false"
    /\ UNCHANGED <<dir, is_hot, wild_color, cur_idx, play_result, turns, last, call>>

TransferNext == TransferCall

TransferSpec == TransferInit /\ [][TransferNext]_vars

\* The call of transfer_cards has returned; Starvation is the result true.
Returned == pc \in {"returned_true", "returned_false"}
Starvation == pc = "returned_true"

\* Cards the call could hand out: the draw pile and the discard pile below its top.
Available(c) == BagCardinality(c.draw_pile) + Len(c.discard_pile) - 1

AllCards(draw, discard, deck) == draw (+) SeqToBag(discard) (+) deck

\* Number of cards of a deck
Size(deck) == BagCardinality(deck)

(***************************************************************************)
(* Claims about transfer_cards, checked under TransferSpec.                *)
(***************************************************************************)

\* C1, as stated: a call made while the discard pile holds more than one
\* card never returns Starvation, whatever the amount and the draw pile.
C1_AsStated ==
    (Returned /\ Len(call.discard_pile) > 1) => ~Starvation

\* C1, amended: a call made while the discard pile holds more than one card
\* never returns Starvation when the amount is 1, nor when the draw pile and
\* the discard cards below the top together number at least the amount.
C1_Recycling ==
    (/\ pc # "transfer_cards"
     /\ Len(call.discard_pile) > 1
     /\ (call.amount = 1 \/ call.amount <= Available(call)))
    => pc = "returned_false"

\* C1 witness: a call on an empty draw pile that recycled the discard pile
\* and handed out four cards.
C1_Witness ==
    /\ pc = "returned_false"
    /\ call.draw_pile = EmptyBag
    /\ Len(call.discard_pile) > 1
    /\ call.amount = 4
    /\ Size(players[0]) = Size(call.deck) + 4

\* C2: when transfer_cards returns Starvation, the receiving deck, the draw
\* pile and the discard pile hold exactly the cards they held before the call.
C2_StarvationLeavesNoTrace ==
    Starvation =>
        /\ players[0] = call.deck
        /\ draw_pile = call.draw_pile
        /\ SeqToBag(discard_pile) = SeqToBag(call.discard_pile)

\* C9: transfer_cards returns Starvation exactly when a card is still owed
\* once the draw pile is empty and the discard pile is down to its top card;
\* it then stops there, with fewer cards handed out than asked; a call on an
\* empty draw pile and a one-card discard pile returns Starvation at once.
C9_StarvationExactly ==
    /\ pc # "transfer_cards" =>
          (Starvation <=> call.amount > Available(call))
    /\ Starvation =>
          /\ draw_pile = EmptyBag
          /\ discard_pile = <<Top(call.discard_pile)>>
          /\ Size(players[0]) = Size(call.deck) + Available(call)
    /\ pc = "returned_false" => Size(players[0]) = Size(call.deck) + call.amount
    /\ (/\ pc # "transfer_cards"
        /\ call.draw_pile = EmptyBag
        /\ Len(call.discard_pile) = 1)
       => /\ Starvation
          /\ players[0] = call.deck
          /\ discard_pile = call.discard_pile

\* C9 witness: Starvation after part of the amount was handed out from a
\* recycled discard pile.
C9_Witness ==
    /\ Starvation
    /\ call.draw_pile = EmptyBag
    /\ Len(call.discard_pile) = 3
    /\ Size(players[0]) = Size(call.deck) + 2

\* C10: a transfer of amount n succeeds whenever the draw pile and the
\* discard cards below the top number at least n; the deck has then gained
\* exactly n cards beside the ones it held, the top of the discard pile is
\* the card it was, the discard pile is untouched or reduced to that top,
\* and the three collections together hold the same cards as before.
C10_TransferSucceeds ==
    (pc # "transfer_cards" /\ call.amount <= Available(call)) =>
        /\ pc = "returned_false"
        /\ Size(players[0]) = Size(call.deck) + call.amount
        /\ call.deck \sqsubseteq players[0]
        /\ Top(discard_pile) = Top(call.discard_pile)
        /\ discard_pile \in {call.discard_pile, <<Top(call.discard_pile)>>}
        /\ AllCards(draw_pile, discard_pile, players[0])
             = AllCards(call.draw_pile, call.discard_pile, call.deck)

\* C10 witness: draw pile of 1, discard pile of 6, amount 3, with recycling.
C10_Witness ==
    /\ pc = "returned_false"
    /\ BagCardinality(call.draw_pile) = 1
    /\ Len(call.discard_pile) = 6
    /\ call.amount = 3
    /\ Len(discard_pile) = 1
    /\ BagCardinality(draw_pile) = 3

(***************************************************************************)
(* Claims about the game, checked under Spec.                              *)
(***************************************************************************)

\* A step of the loop of start: one turn is taken.
TurnTaken == turns' = turns + 1

\* The last turn placed a card of this kind without winning.
Played(action) ==
    /\ pc = "play"
    /\ last.kind = "Place"
    /\ last.placed.action = action

\* The player at distance k, in direction d, from player p.
Seat(p, k, d) == (p + k * d) % player_count

\* A turn taken with is_hot false is a decision of the player whose turn it is.
FreeTurn ==
    (pc = "play" /\ ~is_hot /\ TurnTaken) =>
        (last'.decided /\ last'.player = cur_idx)

\* All the cards of the game: both piles and the decks of the players.
CardsInGame ==
    LET RECURSIVE Decks(_)
        Decks(n) == IF n = 0 THEN EmptyBag ELSE Decks(n - 1) (+) players[n - 1]
    IN  draw_pile (+) SeqToBag(discard_pile) (+) Decks(player_count)

\* C3: the first turn of a game is a plain decision whatever the seed card
\* is: the first player is neither skipped nor made to draw because of it.
C3_FirstTurnIsPlain ==
    turns = 1 => last.decided

C5_CardsConserved ==
    CardsInGame = SeqToBag(gen_draw_pile)

\* C6: with two players, after a player places a Reverse without winning,
\* the other player is skipped and the next decision is the same player's.
C6_ReverseSkipsWithTwo ==
    [][(player_count = 2 /\ Played("Reverse") /\ TurnTaken) =>
          /\ ~last'.decided
          /\ last'.kind = "NoPlace"
          /\ last'.drawn = 0
          /\ cur_idx' = last.player]_vars

\* C7: after player P places a Skip without winning, with direction d among
\* N players, the turn of player (P + d) mod N does nothing (no card placed,
\* none drawn) and the next decision is made by player (P + 2d) mod N.
C7_Skip ==
    [][/\ (Played("Skip") /\ TurnTaken) =>
            /\ dir = last.dir
            /\ cur_idx = Seat(last.player, 1, dir)
            /\ last'.player = cur_idx
            /\ last'.kind = "NoPlace"
            /\ ~last'.decided
            /\ last'.drawn = 0
            /\ last'.placed = NoCard
            /\ UNCHANGED <<draw_pile, discard_pile, players, dir, wild_color>>
            /\ pc' = "play"
            /\ ~is_hot'
            /\ cur_idx' = Seat(last.player, 2, dir)
       /\ FreeTurn]_vars

\* C7 witness: with three players and the direction reversed, the turn after
\* a placed Skip has passed without a decision.
C7_Witness ==
    /\ pc = "play"
    /\ player_count = 3
    /\ dir = -1
    /\ last.hot /\ ~last.decided /\ last.kind = "NoPlace" /\ last.drawn = 0
    /\ Len(discard_pile) >= 2
    /\ Top(discard_pile).action = "Skip"
    /\ cur_idx = Seat(last.player, 1, dir)

\* The cards a placed card makes the next player draw, as the claim has it.
Owed(card) ==
    IF card.action = "Draw2" THEN 2 ELSE IF card.action = "Draw4" THEN 4 ELSE 0

\* C8, as stated: after a Draw2 (Draw4) is placed without winning, the next
\* player in the current direction draws exactly 2 (4) cards and places no
\* card, and the player after them is neither made to draw nor skipped.
C8_AsStated ==
    [][/\ (pc = "play" /\ last.kind = "Place" /\ Owed(last.placed) > 0
           /\ TurnTaken) =>
            /\ last'.player = Seat(last.player, 1, dir)
            /\ last'.drawn = Owed(last.placed)
            /\ last'.placed = NoCard
            /\ ~is_hot'
       /\ FreeTurn]_vars

\* C8, amended: after a Draw2 (Draw4) is placed without winning, the next
\* player in the current direction places no card and makes no decision
\* that turn; they draw exactly 2 (4) cards, and the player after them is
\* then neither made to draw nor skipped because of that card, unless
\* transfer_cards returns Starvation during the draw, in which case fewer
\* cards are drawn and the game ends with no winner.
C8_ForcedDraw ==
    [][/\ (pc = "play" /\ last.kind = "Place" /\ Owed(last.placed) > 0
           /\ TurnTaken) =>
            /\ cur_idx = Seat(last.player, 1, dir)
            /\ last'.player = cur_idx
            /\ ~last'.decided
            /\ last'.placed = NoCard
            /\ Top(discard_pile') = Top(discard_pile)
            /\ Size(players'[cur_idx]) = Size(players[cur_idx]) + last'.drawn
            /\ \/ /\ last'.kind = "NoPlace"
                  /\ last'.drawn = Owed(last.placed)
                  /\ pc' = "play"
                  /\ ~is_hot'
                  /\ cur_idx' = Seat(last.player, 2, dir)
               \/ /\ last'.kind = "Starvation"
                  /\ last'.drawn < Owed(last.placed)
                  /\ pc' = "done"
                  /\ play_result' = "Starvation"
       /\ FreeTurn]_vars

\* C8 witness: the turn after a placed Draw4 has drawn four cards and
\* passed, and the next turn is free.
C8_Witness ==
    /\ pc = "play"
    /\ ~is_hot
    /\ last.hot /\ ~last.decided /\ last.kind = "NoPlace" /\ last.drawn = 4
    /\ Len(discard_pile) >= 2
    /\ Top(discard_pile).action = "Draw4"

(***************************************************************************)
(* gen_draw_pile alone, on the deck of the program.  Here draw_pile is the *)
(* Vec itself, in order.  shuffle permutes it in place by swaps: the       *)
(* element at index i, from the last one down, is swapped with one chosen  *)
(* among the indices up to i; cur_idx holds i and turns counts the swaps,  *)
(* of which the first MaxShuffleSteps are explored.                        *)
(***************************************************************************)
MaxShuffleSteps == 1

Swap(s, i, j) == [s EXCEPT ![i] = s[j], ![j] = s[i]]

GenInit ==
    /\ draw_pile = <<>>
    /\ discard_pile = <<>>
    /\ players = <<>>
    /\ dir = 1
    /\ is_hot = TRUE
    /\ wild_color = None
    /\ cur_idx = 0
    /\ pc = "gen_draw_pile"
    /\ play_result = None
    /\ turns = 0
    /\ last = NoTurn
    /\ call = NoCall

\* lines 83-102: the pushes
GenPush ==
    /\ pc = "gen_draw_pile"
    /\ draw_pile' = full_draw_pile
    /\ cur_idx' = Len(full_draw_pile)
    /\ pc' = "shuffle"
    /\ UNCHANGED <<discard_pile, players, dir, is_hot, wild_color, play_result,
                   turns, last, call>>

\* line 104: one swap of the shuffle
ShuffleStep ==
    /\ pc = "shuffle"
    /\ cur_idx >= 2
    /\ turns < MaxShuffleSteps
    /\ \E j \in 1..cur_idx : draw_pile' = Swap(draw_pile, cur_idx, j)
    /\ cur_idx' = cur_idx - 1
    /\ turns' = turns + 1
    /\ UNCHANGED <<discard_pile, players, dir, is_hot, wild_color, pc,
                   play_result, last, call>>

GenNext == GenPush \/ ShuffleStep

GenSpec == GenInit /\ [][GenNext]_vars

(***************************************************************************)
(* Claims about gen_draw_pile, checked under GenSpec.                      *)
(***************************************************************************)

\* Number of copies of a card in the draw pile
CountOf(card) == Cardinality({i \in DOMAIN draw_pile : draw_pile[i] = card})

ColoredCount == Cardinality({i \in DOMAIN draw_pile : ~IsWild(draw_pile[i])})

WildCount == Cardinality({i \in DOMAIN draw_pile : IsWild(draw_pile[i])})

\* per color one rank 0, two of each rank 1-9, two of each action kind;
\* four of each wild kind
PerKindCounts ==
    /\ \A c \in AllColorSet :
          /\ CountOf(Number(0, c)) = 1
          /\ \A n \in 1..9 : CountOf(Number(n, c)) = 2
          /\ \A a \in Range(ACTION_KINDS) : CountOf(ActionCard(a, c)) = 2
    /\ \A w \in Range(WILD_ACTIONS) : CountOf(Wild(w)) = 4

\* C11, as stated: every generated draw pile holds, whatever the shuffle,
\* per color one rank 0, two of each rank 1-9 and two of each action kind,
\* making 76 colored cards, and four of each wild kind, 84 cards in total.
C11_AsStated ==
    pc = "shuffle" =>
        /\ PerKindCounts
        /\ ColoredCount = 76
        /\ WildCount = 8
        /\ Len(draw_pile) = 84

\* C11, amended: every generated draw pile holds, whatever the shuffle, per
\* color one rank 0, two of each rank 1-9 and two of each action kind,
\* making 100 colored cards (76 number cards and 24 action cards), and four
\* of each wild kind, 108 cards in total.
C11_Composition ==
    pc = "shuffle" =>
        /\ PerKindCounts
        /\ ColoredCount = 100
        /\ Cardinality({i \in DOMAIN draw_pile : draw_pile[i].type = "Number"}) = 76
        /\ WildCount = 8
        /\ Len(draw_pile) = 108

\* C11 witness: a generated draw pile in which the shuffle has moved a card.
C11_Witness ==
    /\ pc = "shuffle"
    /\ turns >= 1
    /\ draw_pile # full_draw_pile

(***************************************************************************)
(* init_discard_pile alone, on the draw piles of up to MaxSeedLen cards    *)
(* over colored and Wild cards, the piles of Wilds only included.          *)
(***************************************************************************)
MaxSeedLen == 4

SeedCardSet ==
    {Number(0, "Red"), ActionCard("Skip", "Blue"),
     Wild("ChangeColor"), Wild("Draw4")}

SeedInit ==
    /\ draw_pile \in {SeqToBag(d) : d \in SeqsUpTo(SeedCardSet, MaxSeedLen) \ {<<>>}}
    /\ discard_pile = <<>>
    /\ players = <<>>
    /\ dir = 1
    /\ is_hot = TRUE
    /\ wild_color = None
    /\ cur_idx = 0
    /\ pc = "init_discard_pile"
    /\ play_result = None
    /\ turns = 0
    /\ last = NoTurn
    /\ call = NoCall

SeedNext == InitDiscardPile

SeedSpec == SeedInit /\ [][SeedNext]_vars

(***************************************************************************)
(* Claims about init_discard_pile, checked under SeedSpec.                 *)
(***************************************************************************)

\* A step of init_discard_pile that ends its loop: the seed is placed or
\* the function fails.
SeedingEnds == InitDiscardPile /\ pc' # "init_discard_pile"

\* C12: init_discard_pile never loops for ever: on every draw pile, a pile
\* of Wild cards only included, the reshuffling has an end, where the seed
\* is placed or the function stops with a failure.
C12_SeedingStops ==
    pc = "init_discard_pile" => ENABLED SeedingEnds

(***************************************************************************)
(* Card::accepts alone, on every pair of cards of the deck of the program  *)
(* and every wild color for which the call does not panic.                 *)
(***************************************************************************)
FullCardSet == Range(full_draw_pile)

AcceptsCalls ==
    {c \in [top : FullCardSet, candidate : FullCardSet,
            wild_color : AllColorSet \cup {None}] :
        ~AcceptsPanics(c.top, c.candidate, c.wild_color)}

AcceptsInit ==
    /\ call \in AcceptsCalls
    /\ draw_pile = EmptyBag
    /\ discard_pile = <<call.top>>
    /\ players = <<>>
    /\ dir = 1
    /\ is_hot = TRUE
    /\ wild_color = call.wild_color
    /\ cur_idx = 0
    /\ pc = "accepts"
    /\ play_result = None
    /\ turns = 0
    /\ last = NoTurn

AcceptsCall ==
    /\ pc = "accepts"
    /\ pc' = IF accepts(Top(discard_pile), call.candidate, wild_color)
             THEN "accepted" ELSE "rejected"
    /\ UNCHANGED <<draw_pile, discard_pile, players, dir, is_hot, wild_color,
                   cur_idx, play_result, turns, last, call>>

AcceptsNext == AcceptsCall

AcceptsSpec == AcceptsInit /\ [][AcceptsNext]_vars

(***************************************************************************)
(* Claims about accepts, checked under AcceptsSpec.                        *)
(***************************************************************************)

IsColored(card) == card.type \in {"Number", "Action"}

\* The case table of legal plays: may the candidate be played on the top
\* card while the wild color is bound to wc.
Legal(top, candidate, wc) ==
    IF IsWild(candidate) THEN TRUE
    ELSE IF IsWild(top) THEN candidate.color = wc
    ELSE \/ candidate.color = top.color
         \/ /\ top.type = "Number" /\ candidate.type = "Number"
            /\ top.number = candidate.number
         \/ /\ top.type = "Action" /\ candidate.type = "Action"
            /\ top.action = candidate.action

\* C13: accepts agrees with the case table for every pair of cards and every
\* bound color; two colored cards of the same color always accept each
\* other; and for two colored cards accepts(a, b) = accepts(b, a).
C13_AcceptsTable ==
    pc \in {"accepted", "rejected"} =>
        /\ pc = "accepted" <=> Legal(call.top, call.candidate, call.wild_color)
        /\ (/\ IsColored(call.top) /\ IsColored(call.candidate)
            /\ call.top.color = call.candidate.color) => pc = "accepted"
        /\ (IsColored(call.top) /\ IsColored(call.candidate)) =>
              (pc = "accepted" <=>
                 accepts(call.candidate, call.top, call.wild_color))

\* C13 witness: a Skip accepted on a Skip of another color.
C13_Witness ==
    /\ pc = "accepted"
    /\ call.top = ActionCard("Skip", "Red")
    /\ call.candidate = ActionCard("Skip", "Yellow")
    /\ call.wild_color = "Green"

(***************************************************************************)
(* Further claims about the game, checked under Spec.                      *)
(***************************************************************************)

CardsLeft == BagCardinality(draw_pile) + Len(discard_pile) - 1

\* The turn about to be taken makes a transfer that cannot be served: a
\* forced draw of more cards than are left, or the single draw of a player
\* who holds no legal card when none is left.
TransferStarves ==
    LET top == Top(discard_pile)
    IN  IF is_hot /\ Owed(top) > 0
        THEN Owed(top) > CardsLeft
        ELSE /\ ~(is_hot /\ top.action = "Skip")
             /\ ~(IsWild(top) /\ wild_color = None)
             /\ \A card \in BagToSet(players[cur_idx]) :
                   ~Legal(top, card, wild_color)
             /\ CardsLeft = 0

\* C15: Starvation is terminal: a turn during which a transfer, the forced
\* draw of 2 or 4 or the single draw, signals Starvation stops the loop at
\* once with the outcome Starvation; no card is placed, no further turn is
\* taken and no player is reported as the winner.
C15_StarvationTerminal ==
    [][/\ (pc = "play" /\ TurnTaken /\ TransferStarves) =>
            /\ pc' = "done"
            /\ play_result' = "Starvation"
            /\ Winner' = None
            /\ last'.placed = NoCard
            /\ UNCHANGED <<cur_idx, dir, is_hot, wild_color>>
       /\ (TurnTaken /\ play_result' = "Starvation") => TransferStarves
       /\ pc = "done" => ~TurnTaken]_vars

\* C15 witness: the game is over with no winner after a forced draw that
\* handed out fewer cards than were owed.
C15_Witness ==
    /\ pc = "done"
    /\ play_result = "Starvation"
    /\ ~last.decided
    /\ last.drawn >= 1
    /\ last.drawn < Owed(Top(discard_pile))

\* C16: the direction is always +1 or -1; each Reverse placed negates it and
\* no other turn changes it, so that two consecutive Reverse plays restore
\* it; after player P places a single Reverse without winning, the old
\* direction being d among N players, the next player to act is
\* (P - d) mod N.
C16_Direction ==
    [][/\ dir \in {1, -1}
       /\ dir' \in {1, -1}
       /\ TurnTaken =>
            dir' = IF last'.placed.action = "Reverse" THEN -dir ELSE dir
       /\ (Played("Reverse") /\ TurnTaken) =>
            /\ dir = -last.dir
            /\ cur_idx = Seat(last.player, 1, -last.dir)
            /\ last'.player = cur_idx
            /\ last'.decided
            /\ last'.placed.action = "Reverse" => dir' = last.dir]_vars

\* C16 witness: among three players two Reverse cards were placed one after
\* the other and the direction is the initial one again.
C16_Witness ==
    /\ pc = "play"
    /\ player_count = 3
    /\ dir = 1
    /\ Played("Reverse")
    /\ Len(discard_pile) >= 3
    /\ discard_pile[Len(discard_pile) - 1].action = "Reverse"
    /\ cur_idx = Seat(last.player, 1, 1)

\* C17: every card moved from a deck to the discard pile is legal when it
\* is placed, on the top card and the wild color of that moment, be it
\* chosen from the deck or played right after being drawn; afterwards it
\* is the top of the discard pile, on the cards that were there, and the
\* deck holds one card fewer.
C17_PlacedLegal ==
    [][(pc = "play" /\ TurnTaken /\ last'.placed # NoCard) =>
          LET placed == last'.placed
              deck == players[cur_idx]
          IN  /\ last'.decided
              /\ Legal(Top(discard_pile), placed, wild_color)
              /\ Top(discard_pile') = placed
              /\ discard_pile' \in {Append(discard_pile, placed),
                                    <<Top(discard_pile), placed>>}
              /\ Size(players'[cur_idx]) = Size(deck) + last'.drawn - 1
              /\ \/ /\ last'.drawn = 0
                    /\ BagIn(placed, deck)
                    /\ players'[cur_idx] = deck (-) One(placed)
                 \/ /\ last'.drawn = 1
                    /\ \A card \in BagToSet(deck) :
                          ~Legal(Top(discard_pile), card, wild_color)
                    /\ players'[cur_idx] = deck
                    /\ BagIn(placed, draw_pile (+) SeqToBag(discard_pile))]_vars

\* C17 witness: a card was drawn and placed at once, and the game goes on.
C17_Witness ==
    /\ pc = "play"
    /\ last.kind = "Place"
    /\ last.drawn = 1
    /\ Top(discard_pile) = last.placed
    /\ Len(discard_pile) >= 2

\* C18: after every turn that does not end the game, is_hot is true exactly
\* when that turn placed a card; a turn that places none, a pass after a
\* draw or a forced draw or skip, sets is_hot to false and leaves the top
\* card and the wild color as they were.
C18_HotIffPlaced ==
    [][(pc = "play" /\ TurnTaken /\ pc' = "play") =>
          /\ is_hot' <=> last'.placed # NoCard
          /\ last'.placed # NoCard =>
                /\ Top(discard_pile') = last'.placed
                /\ Len(discard_pile') >= 2
          /\ last'.placed = NoCard =>
                /\ ~is_hot'
                /\ discard_pile' \in {discard_pile, <<Top(discard_pile)>>}
                /\ Top(discard_pile') = Top(discard_pile)
                /\ wild_color' = wild_color]_vars

\* C18 witness: a player drew a card on a Wild top card, passed, and the
\* wild color is still bound.
C18_Witness ==
    /\ pc = "play"
    /\ ~is_hot
    /\ last.decided /\ last.kind = "NoPlace" /\ last.drawn = 1
    /\ IsWild(Top(discard_pile))
    /\ wild_color \in ColorSet

(***************************************************************************)
(* Line 244 alone, the advance of cur_idx at the end of a turn, for every  *)
(* number of players the program admits, every index and both directions.  *)
(***************************************************************************)
AdvanceInit ==
    /\ \E n \in 1..MAX_BOTS :
          /\ players = [i \in 0..(n - 1) |-> One(Number(0, "Red"))]
          /\ cur_idx \in 0..(n - 1)
    /\ dir \in {1, -1}
    /\ call = [idx |-> cur_idx, dir |-> dir]
    /\ draw_pile = EmptyBag
    /\ discard_pile = <<Number(0, "Blue")>>
    /\ is_hot = TRUE
    /\ wild_color = None
    /\ pc = "advance"
    /\ play_result = None
    /\ turns = 0
    /\ last = NoTurn

AdvanceStep ==
    /\ pc = "advance"
    /\ IF StepFails(dir)
       THEN pc' = "panic" /\ UNCHANGED cur_idx
       ELSE pc' = "advanced" /\ cur_idx' = NextIdx(cur_idx, dir)
    /\ UNCHANGED <<draw_pile, discard_pile, players, dir, is_hot, wild_color,
                   play_result, turns, last, call>>

AdvanceNext == AdvanceStep

AdvanceSpec == AdvanceInit /\ [][AdvanceNext]_vars

(***************************************************************************)
(* Claims about the advance of cur_idx, checked under AdvanceSpec.         *)
(***************************************************************************)

\* The seat next to idx in direction d around a table of n seats
Wrapped(idx, d, n) ==
    IF idx + d = n THEN 0 ELSE IF idx + d = -1 THEN n - 1 ELSE idx + d

\* C19: for every number N of players from 1 to 9 and each direction d, the
\* index after a turn equals (index + d) mod N and lies in 0..N-1, and
\* player_count + d is never negative, so that its conversion to usize
\* never fails.
C19_Advance ==
    pc # "advance" =>
        /\ pc = "advanced"
        /\ player_count + call.dir >= 0
        /\ cur_idx = Wrapped(call.idx, call.dir, player_count)
        /\ cur_idx = (call.idx + call.dir + player_count) % player_count
        /\ cur_idx \in 0..(player_count - 1)

\* C19 witness: among nine players the index has wrapped from 0 to 8 in the
\* direction -1.
C19_Witness ==
    /\ pc = "advanced"
    /\ player_count = 9
    /\ call.idx = 0
    /\ call.dir = -1
    /\ cur_idx = 8

(***************************************************************************)
(* Claim about the underflow of discard_pile.len() - 1, checked under      *)
(* Spec.                                                                   *)
(***************************************************************************)

\* A deck of deck_len cards leaves a card for the seed after the human and
\* bots players were dealt dealt cards each.
DeckSuffices(deck_len, bots, dealt) == deck_len > (bots + 1) * dealt

\* C20: whenever transfer_cards finds the draw pile empty the discard pile
\* holds at least one card, so that discard_pile.len() - 1 never
\* underflows: during the turns the discard pile is never empty; dealing,
\* while it is still empty, exhausts the draw pile only if the deck does
\* not suffice for the players dealt to, and the draw pile is then not
\* empty when the seed is taken; and with 1 to 9 bots and 7 cards each the
\* deck of the program suffices.
C20_NoUnderflow ==
    /\ last.kind # "Underflow"
    /\ pc \in {"play", "done"} => Len(discard_pile) >= 1
    /\ (pc = "panic" /\ turns = 0) =>
          ~DeckSuffices(Len(gen_draw_pile), player_count + 1, DealtCards)
    /\ (/\ pc = "init_discard_pile"
        /\ DeckSuffices(Len(gen_draw_pile), player_count, DealtCards)) =>
          /\ discard_pile = <<>>
          /\ BagCardinality(draw_pile)
               = Len(gen_draw_pile) - (player_count + 1) * DealtCards
          /\ draw_pile # EmptyBag
    /\ \A b \in 1..MAX_BOTS :
          DeckSuffices(Len(full_draw_pile), b, INITIAL_CARDS_PER_PLAYER)

\* C20 witness: a transfer found the draw pile empty and recycled the
\* discard pile, whose only card is now a Wild that was placed on the seed.
C20_Witness ==
    /\ pc = "play"
    /\ Len(discard_pile) = 1
    /\ IsWild(Top(discard_pile))
    /\ last.drawn >= 1

====
